---- MODULE Spec2Model ----
(***************************************************************************)
(* Model of todo.py: a CLI TODO list persisted as one JSON file.  Each     *)
(* invocation loads the whole file, runs one sub-command and, when the     *)
(* command succeeds and mutates, writes the whole list back.               *)
(*                                                                         *)
(* Spec     : invocations run one after another (one action per handler).  *)
(* SpecRace : two invocations whose load and save steps interleave.        *)
(***************************************************************************)
EXTENDS Integers, Sequences, FiniteSets, TLC

VARIABLES
  file,      \* content of DATA_FILE
  prev,      \* content of DATA_FILE before the last invocation
  last,      \* the last invocation: args, exit status, output, file I/O
  before,    \* command, id and status of the invocation before the last one
  assigned,  \* ids that add has handed out so far
  deleted,   \* TRUE once a delete has succeeded
  procs,     \* SpecRace: the two concurrent invocations
  nwrites    \* SpecRace: number of save_todos calls so far

vars == <<file, prev, last, before, assigned, deleted, procs, nwrites>>

\* ------------------------------------------------------------------ bounds
MaxId == 3        \* adds are enabled while the largest stored id is below this
MaxRuns == 2      \* invocations per process in SpecRace

Whitespace == {" "}
\* task texts given to add: empty, blank, plain, padded, with an inner blank
RawTasks ==
  {<<>>, <<" ">>, <<" ", " ">>, <<"a">>, <<" ", "a">>, <<"a", " ">>,
   <<" ", "a", " ">>, <<"a", " ", "a">>}
RaceTasks == {<<"a">>, <<"a", " ", "a">>}
IdArgs == 0..MaxId
Procs == {1, 2}

\* ------------------------------------------------------- the backing file
\* DATA_FILE: absent, text that is not JSON, the JSON document {}, or a
\* JSON array of todo objects (kind "list").
Absent == [kind |-> "absent", todos |-> <<>>]
InvalidJson == [kind |-> "invalid", todos |-> <<>>]
EmptyObject == [kind |-> "object", todos |-> <<>>]

\* load_todos: existence check, then read_text + json.loads; only
\* JSONDecodeError is turned into the "invalid JSON" exit.
load_todos_reread(f) ==
  IF f.kind = "absent"
    THEN [raised |-> FALSE, value |-> [kind |-> "list", todos |-> <<>>],
          io |-> <<"exists">>]
    ELSE [raised |-> f.kind = "invalid",
          value |-> IF f.kind = "invalid" THEN [kind |-> "list", todos |-> <<>>] ELSE f,
          io |-> <<"exists", "read", "read">>]

load_todos(f) ==
  IF f.kind = "absent"
    THEN [raised |-> FALSE, value |-> [kind |-> "list", todos |-> <<>>],
          io |-> <<"exists">>]
    ELSE IF f.kind = "invalid"
      THEN [raised |-> TRUE, value |-> [kind |-> "list", todos |-> <<>>],
            io |-> <<"exists", "read">>]
      ELSE [raised |-> FALSE, value |-> f, io |-> <<"exists", "read">>]

\* save_todos: the file becomes the JSON array of the whole list.
save_todos(todos) == [kind |-> "list", todos |-> todos]

\* ------------------------------------------------------------ pure helpers
RECURSIVE MaxIdOf(_)
MaxIdOf(todos) ==
  IF todos = <<>> THEN 0
  ELSE LET m == MaxIdOf(Tail(todos))
       IN IF Head(todos).id > m THEN Head(todos).id ELSE m

next_id_len(todos) == Len(todos) + 1

next_id(todos) == IF todos = <<>> THEN 1 ELSE MaxIdOf(todos) + 1

RECURSIVE lstrip(_)
lstrip(s) == IF s # <<>> /\ Head(s) \in Whitespace THEN lstrip(Tail(s)) ELSE s

RECURSIVE rstrip(_)
rstrip(s) ==
  IF s # <<>> /\ s[Len(s)] \in Whitespace
    THEN rstrip(SubSeq(s, 1, Len(s) - 1)) ELSE s

strip(s) == rstrip(lstrip(s))

RECURSIVE FilterSeq(_, _)
FilterSeq(s, keepDone) ==
  IF s = <<>> THEN <<>>
  ELSE IF Head(s).done = keepDone
         THEN <<Head(s)>> \o FilterSeq(Tail(s), keepDone)
         ELSE FilterSeq(Tail(s), keepDone)

RECURSIVE DropId(_, _)
DropId(s, todo_id) ==
  IF s = <<>> THEN <<>>
  ELSE IF Head(s).id # todo_id
         THEN <<Head(s)>> \o DropId(Tail(s), todo_id)
         ELSE DropId(Tail(s), todo_id)

find_todo_any(todos, todo_id) == IF todos = <<>> THEN 0 ELSE 1

\* find_todo: index of the first item with that id, 0 when the scan ends
\* without a match (the not-found exit).
find_todo(todos, todo_id) ==
  IF \E i \in 1..Len(todos) : todos[i].id = todo_id
    THEN CHOOSE i \in 1..Len(todos) :
           /\ todos[i].id = todo_id
           /\ \A j \in 1..(i - 1) : todos[j].id # todo_id
    ELSE 0

\* ------------------------------------------------------------------ output
Line(text, mark, id, task) ==
  [text |-> text, mark |-> mark, id |-> id, task |-> task]

ItemLine(item) ==
  Line("item", IF item.done THEN "x" ELSE " ", item.id, item.task)

Outcome(status, write, todos, out, id) ==
  [status |-> status, write |-> write, todos |-> todos, out |-> out, id |-> id]

ParseExit ==
  Outcome("parse_error", FALSE, <<>>,
          <<Line("Error: todos.json is invalid JSON.", "", 0, <<>>)>>, 0)

NotFoundExit(todo_id) ==
  Outcome("not_found", FALSE, <<>>,
          <<Line("Error: TODO not found.", "", todo_id, <<>>)>>, 0)

\* --------------------------------------------- handlers, after load_todos
add_body_no_check(value, task) ==
  LET item == [id |-> next_id(value.todos), task |-> strip(task), done |-> FALSE]
  IN Outcome("ok", TRUE, Append(value.todos, item),
             <<Line("Added TODO", "", item.id, item.task)>>, item.id)

add_body(value, task) ==
  LET item == [id |-> next_id(value.todos), task |-> strip(task), done |-> FALSE]
  IN IF item.task = <<>>
       THEN Outcome("validation_error", FALSE, <<>>,
                    <<Line("Error: task cannot be empty.", "", 0, <<>>)>>, 0)
       ELSE IF value.kind # "list"
         THEN \* {} has no append: uncaught AttributeError
              Outcome("crash", FALSE, <<>>, <<Line("Traceback", "", 0, <<>>)>>, 0)
         ELSE Outcome("ok", TRUE, Append(value.todos, item),
                      <<Line("Added TODO", "", item.id, item.task)>>, item.id)

list_body_done_first(value, all, done) ==
  LET filtered == IF done THEN FilterSeq(value.todos, TRUE)
                  ELSE IF all THEN value.todos
                  ELSE FilterSeq(value.todos, TRUE)
  IN IF filtered = <<>>
       THEN Outcome("ok", FALSE, <<>>, <<Line("No TODOs found.", "", 0, <<>>)>>, 0)
       ELSE Outcome("ok", FALSE, <<>>,
                    [i \in 1..Len(filtered) |-> ItemLine(filtered[i])], 0)

list_body(value, all, done) ==
  LET filtered == IF all THEN value.todos
                  ELSE IF done THEN FilterSeq(value.todos, TRUE)
                  ELSE FilterSeq(value.todos, FALSE)
  IN IF filtered = <<>>
       THEN Outcome("ok", FALSE, <<>>, <<Line("No TODOs found.", "", 0, <<>>)>>, 0)
       ELSE Outcome("ok", FALSE, <<>>,
                    [i \in 1..Len(filtered) |-> ItemLine(filtered[i])], 0)

set_done_all(todos, i, flag) ==
  [j \in 1..Len(todos) |-> [todos[j] EXCEPT !.done = flag]]

\* item["done"] = flag on the item find_todo returned
set_done(todos, i, flag) == [todos EXCEPT ![i].done = flag]

mark_body(value, todo_id, flag) ==
  LET i == find_todo(value.todos, todo_id)
  IN IF i = 0 THEN NotFoundExit(todo_id)
     ELSE Outcome("ok", TRUE, set_done(value.todos, i, flag),
                  <<Line(IF flag THEN "Marked as done." ELSE "Marked as not done.",
                         "", todo_id, <<>>)>>, 0)

delete_body_prefix(value, todo_id) ==
  LET i == find_todo(value.todos, todo_id)
  IN IF i = 0 THEN NotFoundExit(todo_id)
     ELSE Outcome("ok", TRUE, SubSeq(value.todos, 1, i - 1),
                  <<Line("Deleted TODO.", "", todo_id, <<>>)>>, 0)

delete_body(value, todo_id) ==
  LET i == find_todo(value.todos, todo_id)
  IN IF i = 0 THEN NotFoundExit(todo_id)
     ELSE Outcome("ok", TRUE, DropId(value.todos, todo_id),
                  <<Line("Deleted TODO.", "", todo_id, <<>>)>>, 0)

\* args as parsed by build_parser
Args(cmd, task, id, all, done) ==
  [cmd |-> cmd, task |-> task, id |-> id, all |-> all, done |-> done]

NoArgs == Args("none", <<>>, 0, FALSE, FALSE)

\* main: args.func(args), on the value load_todos returned
Body(a, value) ==
  CASE a.cmd = "add" -> add_body(value, a.task)
    [] a.cmd = "list" -> list_body(value, a.all, a.done)
    [] a.cmd = "done" -> mark_body(value, a.id, TRUE)
    [] a.cmd = "undone" -> mark_body(value, a.id, FALSE)
    [] a.cmd = "delete" -> delete_body(value, a.id)

\* one whole invocation against file f
Finish(f, l, r) ==
  [file |-> IF r.write THEN save_todos(r.todos) ELSE f,
   status |-> r.status, out |-> r.out, id |-> r.id,
   io |-> IF r.write THEN Append(l.io, "write") ELSE l.io]

Run(a, f) ==
  LET l == load_todos(f)
  IN Finish(f, l, IF l.raised THEN ParseExit ELSE Body(a, l.value))

NoRun == [args |-> NoArgs, status |-> "none", out |-> <<>>, id |-> 0, io |-> <<>>]

IdleProc ==
  [pc |-> "idle", args |-> NoArgs, value |-> [kind |-> "list", todos |-> <<>>],
   status |-> "none", id |-> 0, loadVer |-> 0, saveVer |-> 0, runs |-> 0]

Summary(run) == [cmd |-> run.args.cmd, id |-> run.args.id, status |-> run.status]

\* ------------------------------------------------- sequential invocations
Init ==
  /\ file \in {Absent, InvalidJson, EmptyObject, save_todos(<<>>)}
  /\ prev = file
  /\ last = NoRun
  /\ before = Summary(NoRun)
  /\ assigned = {}
  /\ deleted = FALSE
  /\ procs = [p \in Procs |-> IdleProc]
  /\ nwrites = 0

Invoke(a) ==
  \E r \in {Run(a, file)} :
     /\ file' = r.file
     /\ prev' = file
     /\ last' = [args |-> a, status |-> r.status, out |-> r.out, id |-> r.id,
                 io |-> r.io]
     /\ before' = Summary(last)
     /\ assigned' = IF a.cmd = "add" /\ r.status = "ok"
                      THEN assigned \cup {r.id} ELSE assigned
     /\ deleted' = (deleted \/ (a.cmd = "delete" /\ r.status = "ok"))
     /\ UNCHANGED <<procs, nwrites>>

cmd_add ==
  /\ MaxIdOf(file.todos) < MaxId
  /\ \E task \in RawTasks : Invoke(Args("add", task, 0, FALSE, FALSE))

cmd_list ==
  \E all \in BOOLEAN, done \in BOOLEAN : Invoke(Args("list", <<>>, 0, all, done))

cmd_done == \E id \in IdArgs : Invoke(Args("done", <<>>, id, FALSE, FALSE))

cmd_undone == \E id \in IdArgs : Invoke(Args("undone", <<>>, id, FALSE, FALSE))

cmd_delete == \E id \in IdArgs : Invoke(Args("delete", <<>>, id, FALSE, FALSE))

Next == cmd_add \/ cmd_list \/ cmd_done \/ cmd_undone \/ cmd_delete

Spec == Init /\ [][Next]_vars

\* ------------------------------------------------ concurrent invocations
\* Two processes run main at the same time.  load_todos and save_todos are
\* the only steps that touch the file; everything between them works on the
\* list the process loaded.
InitRace ==
  /\ file \in {Absent, InvalidJson}
  /\ prev = file
  /\ last = NoRun
  /\ before = Summary(NoRun)
  /\ assigned = {}
  /\ deleted = FALSE
  /\ procs = [p \in Procs |-> IdleProc]
  /\ nwrites = 0

RaceArgs ==
  {Args("add", t, 0, FALSE, FALSE) : t \in RaceTasks}
    \cup {Args(c, <<>>, i, FALSE, FALSE) : c \in {"done", "undone", "delete"}, i \in 1..MaxId}
    \cup {Args("list", <<>>, 0, TRUE, FALSE)}

\* the process starts and runs up to the return of load_todos
RaceLoad(p) ==
  /\ procs[p].pc \in {"idle", "exited"}
  /\ procs[p].runs < MaxRuns
  /\ \E a \in RaceArgs, l \in {load_todos(file)} :
       /\ a.cmd = "add" => MaxIdOf(file.todos) < MaxId
       /\ procs' = [procs EXCEPT ![p] =
            [pc |-> IF l.raised THEN "exited" ELSE "loaded",
             args |-> a, value |-> l.value,
             status |-> IF l.raised THEN "parse_error" ELSE "running",
             id |-> 0, loadVer |-> nwrites, saveVer |-> 0,
             runs |-> procs[p].runs + 1]]
  /\ UNCHANGED <<file, prev, last, before, assigned, deleted, nwrites>>

RaceFinishReload(p) ==
  /\ procs[p].pc = "loaded"
  /\ \E r \in {Body(procs[p].args, load_todos(file).value)} :
       /\ file' = IF r.write THEN save_todos(r.todos) ELSE file
       /\ nwrites' = IF r.write THEN nwrites + 1 ELSE nwrites
       /\ procs' = [procs EXCEPT ![p].pc = "exited", ![p].status = r.status,
                                 ![p].id = r.id,
                                 ![p].saveVer = IF r.write THEN nwrites + 1 ELSE 0]
  /\ UNCHANGED <<prev, last, before, assigned, deleted>>

\* the rest of the handler, on the list it loaded: mutate, save_todos, exit
RaceFinish(p) ==
  /\ procs[p].pc = "loaded"
  /\ \E r \in {Body(procs[p].args, procs[p].value)} :
       /\ file' = IF r.write THEN save_todos(r.todos) ELSE file
       /\ nwrites' = IF r.write THEN nwrites + 1 ELSE nwrites
       /\ procs' = [procs EXCEPT ![p].pc = "exited", ![p].status = r.status,
                                 ![p].id = r.id,
                                 ![p].saveVer = IF r.write THEN nwrites + 1 ELSE 0]
  /\ UNCHANGED <<prev, last, before, assigned, deleted>>

NextRace == \E p \in Procs : RaceLoad(p) \/ RaceFinish(p)

SpecRace == InitRace /\ [][NextRace]_vars

\* ================================================================ claims
IsStore(f) == f.kind \in {"absent", "list"}

Ids(todos) == {todos[i].id : i \in 1..Len(todos)}

Count(s, e) == Cardinality({i \in 1..Len(s) : s[i] = e})

Blank(t) == \A i \in 1..Len(t) : t[i] \in Whitespace

\* t is raw without its leading and trailing whitespace
TrimOf(raw, t) ==
  /\ t # <<>>
  /\ t[1] \notin Whitespace
  /\ t[Len(t)] \notin Whitespace
  /\ \E i \in 0..(Len(raw) - Len(t)) :
       /\ SubSeq(raw, i + 1, i + Len(t)) = t
       /\ \A k \in (1..i) \cup ((i + Len(t) + 1)..Len(raw)) : raw[k] \in Whitespace

\* C1: an id that add has assigned is never assigned again by a later add,
\* also after the item that held it has been deleted.
C1_IdNeverReused ==
  [][(last'.args.cmd = "add" /\ last'.status = "ok" /\ file' # file)
       => last'.id \notin assigned]_vars

\* C2: in every store reachable from an empty or absent store the ids are
\* positive, pairwise distinct and strictly increasing in store order; as long
\* as nothing was deleted they are exactly 1..N in insertion order.
C2_IdsIncreasing ==
  file.kind = "list" =>
    /\ \A i \in 1..Len(file.todos) : file.todos[i].id >= 1
    /\ \A i, j \in 1..Len(file.todos) : i < j => file.todos[i].id < file.todos[j].id
    /\ ~deleted => /\ \A i \in 1..Len(file.todos) : file.todos[i].id = i
                   /\ Len(file.todos) = Cardinality(assigned)

C2_Witness ==
  /\ file.kind = "list"
  /\ deleted
  /\ Len(file.todos) = 2
  /\ file.todos[1].id = 2
  /\ last.args.cmd = "add" /\ last.status = "ok"

\* C3: add with an empty or all-whitespace task exits with the validation
\* error and neither appends nor writes; any other add appends exactly one
\* item holding the trimmed text with done = FALSE.
C3_AddValidation ==
  (last.args.cmd = "add" /\ IsStore(prev)) =>
    IF Blank(last.args.task)
      THEN /\ last.status = "validation_error"
           /\ file = prev
           /\ Count(last.io, "write") = 0
      ELSE /\ last.status = "ok"
           /\ file.kind = "list"
           /\ Len(file.todos) = Len(prev.todos) + 1
           /\ SubSeq(file.todos, 1, Len(prev.todos)) = prev.todos
           /\ file.todos[Len(file.todos)].done = FALSE
           /\ file.todos[Len(file.todos)].id = last.id
           /\ TrimOf(last.args.task, file.todos[Len(file.todos)].task)

C3_Witness ==
  /\ last.args.cmd = "add"
  /\ last.args.task = <<" ", " ">>
  /\ last.status = "validation_error"
  /\ file.kind = "list"
  /\ Len(file.todos) >= 1

\* C4: done(id) followed by undone(id), for an id in the store, leaves that
\* item with done = FALSE and every other item, every id and task and the
\* order of the store as they were before the two invocations.
C4_DoneUndone ==
  [][(/\ last.args.cmd = "done" /\ last.status = "ok"
      /\ last'.args.cmd = "undone" /\ last'.args.id = last.args.id)
       => /\ last'.status = "ok"
          /\ file'.kind = "list"
          /\ Len(file'.todos) = Len(prev.todos)
          /\ \A i \in 1..Len(prev.todos) :
               /\ file'.todos[i].id = prev.todos[i].id
               /\ file'.todos[i].task = prev.todos[i].task
               /\ file'.todos[i].done =
                    IF prev.todos[i].id = last.args.id THEN FALSE
                    ELSE prev.todos[i].done]_vars

C4_Witness ==
  /\ last.args.cmd = "undone" /\ last.status = "ok"
  /\ before.cmd = "done" /\ before.status = "ok" /\ before.id = last.args.id
  /\ Len(file.todos) >= 2
  /\ \E i \in 1..Len(file.todos) : file.todos[i].done
  /\ \E i \in 1..Len(file.todos) :
       file.todos[i].id = last.args.id /\ ~file.todos[i].done

\* C5: delete(id), for an id in the store, removes exactly that one item and
\* keeps the others and their order; a second delete(id) right after exits
\* with not-found and leaves the store as it is.
C5_Removed ==
  (last.args.cmd = "delete" /\ IsStore(prev)) =>
    IF last.args.id \in Ids(prev.todos)
      THEN /\ last.status = "ok"
           /\ file.kind = "list"
           /\ Len(file.todos) = Len(prev.todos) - 1
           /\ \E k \in 1..Len(prev.todos) :
                /\ prev.todos[k].id = last.args.id
                /\ file.todos = SubSeq(prev.todos, 1, k - 1)
                                  \o SubSeq(prev.todos, k + 1, Len(prev.todos))
      ELSE last.status = "not_found"

C5_DeleteOnce ==
  [][/\ C5_Removed'
     /\ (/\ last.args.cmd = "delete" /\ last.status = "ok"
         /\ last'.args.cmd = "delete" /\ last'.args.id = last.args.id)
          => /\ last'.status = "not_found"
             /\ file' = file
             /\ Count(last'.io, "write") = 0]_vars

C5_Witness ==
  /\ last.args.cmd = "delete" /\ last.status = "not_found"
  /\ before.cmd = "delete" /\ before.status = "ok" /\ before.id = last.args.id
  /\ file.kind = "list"
  /\ Len(file.todos) >= 2

\* C6: list prints the pending items, list --done the done items and
\* list --all every item, in insertion order; an empty selection gives the
\* "No TODOs found." outcome with a zero exit; list never writes the file.
Selected(todos, all, done) ==
  {i \in 1..Len(todos) : all \/ todos[i].done = done}

Nth(sel, k) == CHOOSE i \in sel : Cardinality({j \in sel : j < i}) = k - 1

C6_List ==
  (last.args.cmd = "list" /\ IsStore(prev)) =>
    /\ last.status = "ok"
    /\ file = prev
    /\ Count(last.io, "write") = 0
    /\ ~(last.args.all /\ last.args.done) =>
         LET sel == Selected(prev.todos, last.args.all, last.args.done)
         IN IF sel = {}
              THEN last.out = <<[text |-> "No TODOs found.", mark |-> "",
                                 id |-> 0, task |-> <<>>]>>
              ELSE /\ Len(last.out) = Cardinality(sel)
                   /\ \A k \in 1..Len(last.out) :
                        LET item == prev.todos[Nth(sel, k)]
                        IN last.out[k] =
                             [text |-> "item",
                              mark |-> IF item.done THEN "x" ELSE " ",
                              id |-> item.id, task |-> item.task]

C6_Witness ==
  /\ last.args.cmd = "list" /\ ~last.args.all /\ ~last.args.done
  /\ Len(last.out) = 2
  /\ last.out[1].text = "item"
  /\ Len(prev.todos) = 3
  /\ prev.todos[2].done

\* C7: load gives the empty list for an absent file and exits with the parse
\* error, running no further step, whenever the file exists and is not a JSON
\* array of todo objects: not JSON at all, or JSON of another shape.
C7_ParseError ==
  /\ load_todos(Absent).value.todos = <<>> /\ ~load_todos(Absent).raised
  /\ (last.status # "none" /\ prev.kind \in {"invalid", "object"})
       => (last.status = "parse_error" /\ file = prev)

\* C8: done, undone and delete with an id no item carries exit with
\* not-found and leave the file alone: no flag changes, nothing is removed,
\* nothing is written.
C8_NotFound ==
  (/\ last.args.cmd \in {"done", "undone", "delete"}
   /\ IsStore(prev)
   /\ last.args.id \notin Ids(prev.todos))
    => /\ last.status = "not_found"
       /\ file = prev
       /\ Count(last.io, "write") = 0

C8_Witness ==
  /\ last.args.cmd = "done" /\ last.status = "not_found"
  /\ last.args.id \in assigned
  /\ file.kind = "list"
  /\ Len(file.todos) >= 2
  /\ \E i \in 1..Len(file.todos) : ~file.todos[i].done

\* C9: when two adds both load before either saves, both exit successfully
\* with the same id and the file holds only the later save: one new item, not
\* two.
LostUpdate(p, q) ==
  /\ p # q
  /\ procs[p].pc = "exited" /\ procs[q].pc = "exited"
  /\ procs[p].args.cmd = "add" /\ procs[q].args.cmd = "add"
  /\ procs[p].status = "ok" /\ procs[q].status = "ok"
  /\ procs[p].loadVer = procs[q].loadVer
  /\ procs[p].saveVer = procs[p].loadVer + 1
  /\ procs[q].saveVer = procs[p].loadVer + 2
  /\ nwrites = procs[q].saveVer

C9_LostUpdate ==
  \A p, q \in Procs :
    LostUpdate(p, q) =>
      /\ procs[p].id = procs[q].id
      /\ procs[p].value = procs[q].value
      /\ file.kind = "list"
      /\ Len(file.todos) = Len(procs[p].value.todos) + 1
      /\ SubSeq(file.todos, 1, Len(file.todos) - 1) = procs[q].value.todos
      /\ file.todos[Len(file.todos)].id = procs[q].id
      /\ TrimOf(procs[q].args.task, file.todos[Len(file.todos)].task)

C9_Witness ==
  \E p, q \in Procs :
    /\ LostUpdate(p, q)
    /\ procs[p].args.task # procs[q].args.task
    /\ Len(file.todos) = 2
    /\ \A i \in 1..Len(file.todos) : file.todos[i].task # procs[p].args.task

\* C10 as stated: every invocation reads the file exactly once and writes it
\* at most once, the read first; only a successful add, done, undone or
\* delete writes, and it writes once.
Mutates(run) == run.args.cmd # "list" /\ run.status = "ok"

C10_OneReadOneWrite ==
  last.status # "none" =>
    /\ Count(last.io, "read") = 1
    /\ Count(last.io, "write") = IF Mutates(last) THEN 1 ELSE 0
    /\ \A i, j \in 1..Len(last.io) :
         (last.io[i] = "read" /\ last.io[j] = "write") => i < j

\* C10 amended: every invocation checks once that the file exists, reads it
\* exactly once when it exists and not at all when it is absent, and writes
\* it at most once, after the load; only a successful add, done, undone or
\* delete writes, and it writes the full list once.
C10_LoadThenSave ==
  last.status # "none" =>
    /\ last.io[1] = "exists" /\ Count(last.io, "exists") = 1
    /\ Count(last.io, "read") = IF prev.kind = "absent" THEN 0 ELSE 1
    /\ Count(last.io, "write") = IF Mutates(last) THEN 1 ELSE 0
    /\ Len(last.io) = 1 + Count(last.io, "read") + Count(last.io, "write")
    /\ \A i, j \in 1..Len(last.io) :
         (last.io[i] # "write" /\ last.io[j] = "write") => i < j
    /\ Mutates(last) => file.kind = "list"
    /\ ~Mutates(last) => file = prev

C10_Witness ==
  /\ last.args.cmd = "add" /\ last.status = "ok"
  /\ prev.kind = "absent"
  /\ last.io = <<"exists", "write">>
  /\ file.kind = "list" /\ Len(file.todos) = 1

====
